---------------------------- MODULE Spec2Model ----------------------------
(***************************************************************************)
(* Marketplace backend: account management (users/api/v1/api.py) and the   *)
(* product / review / favorite catalogue (products/api/v1/api.py), behind  *)
(* the bearer Authenticator and the require_active / require_role guards.  *)
(*                                                                         *)
(* The token codec, the Authenticator and the two guards live in           *)
(* utils/base.py, and the table schemas in users/models.py and             *)
(* products/models.py; none of them is part of the sources at hand.  They  *)
(* are modelled from the written specification (sections 3, 4 and 7), and  *)
(* what the schemas leave open (unique and not-null constraints) is a      *)
(* nondeterministic choice in the step that inserts a row.                 *)
(***************************************************************************)
EXTENDS Integers, FiniteSets, Sequences, TLC

(* ------------------------------ bounds -------------------------------- *)

\* Users ever created (ids are never reused, as with UUID primary keys).
MaxUsers == 2

\* The clock runs from 0 to MaxTime.
MaxTime == 2

\* Tokens a client keeps at hand to present later; a token issued beyond this
\* is delivered but never presented again.
MaxTokens == 1

\* create_account requests in flight at the same time.
MaxInflight == 1

\* Artist profiles, products and reviews ever created.
MaxProfiles == 1

MaxProducts == 1

MaxReviews == 1

(* ------------------------- program constants -------------------------- *)

\* create_account: len(data.password) <= 8 is rejected.
PasswordLimit == 8

\* Per-purpose time-to-live of a token (startup configuration).
LoginTTL == 1

VerificationTTL == 1

ResetTTL == 1

(* ------------------------------ domains ------------------------------- *)

None == "None"

NoId == 0

Usernames == {"alice", "bob"}

Emails == {"a@shop", "b@shop"}

\* One password create_account accepts (9 characters) and one it refuses
\* (8 characters); login uses the second as the wrong password.
Passwords == {"passw0rd9", "passw0rd"}

Ratings == {1, 5}

\* The comment a request sends along with a rating.
Comment(rating) == IF rating = 1 THEN "poor" ELSE "great"

Names == {"mug", "vase"}

VARIABLES
    users,      \* table User: set of rows
    profiles,   \* table ArtistProfile: set of rows [id, user]
    products,   \* table Product: set of rows [id, artist, name]
    reviews,    \* table Review: set of rows [id, product, user, rating, comment]
    favorites,  \* table Favorite: set of rows [user, product]
    nextId,     \* next fresh primary key per table
    now,        \* wall clock
    issued,     \* tokens issued so far that a client still holds
    txns,       \* create_account transactions opened and not yet committed
    reset,      \* the request_password_reset request in flight
    resp        \* response of the request handled by the last step

store == <<users, profiles, products, reviews, favorites>>

vars == <<users, profiles, products, reviews, favorites, nextId, now, issued, txns, reset, resp>>

(* --------------------------- the User table --------------------------- *)

\* User.objects.create(username, email, is_artist): is_active defaults to
\* true, the password is unusable until set_password.
NewUser(id, username, email, is_artist) ==
    [id |-> id, username |-> username, email |-> email, is_artist |-> is_artist,
     is_active |-> TRUE, password |-> None]

\* User.objects.filter(email=...)
UsersByEmail(email) == {u \in users : u.email = email}

\* User.objects.filter(username=...)
UsersByUsername(username) == {u \in users : u.username = username}

\* User.objects.filter(id=...)
UsersById(id) == {u \in users : u.id = id}

\* QuerySet.get(): the row, or which exception it raises.
GetOutcome(rows) ==
    IF rows = {} THEN "DoesNotExist"
    ELSE IF Cardinality(rows) > 1 THEN "MultipleObjectsReturned"
    ELSE "ok"

TheRow(rows) == CHOOSE r \in rows : TRUE

(* ----------------------------- Token Codec ---------------------------- *)

NoToken == [purpose |-> "none", sub |-> NoId, email |-> None, exp |-> 0, sig |-> "none"]

\* issue(subject, purpose, ttl)
new_user_jwt(email) ==
    [purpose |-> "email-verification", sub |-> NoId, email |-> email,
     exp |-> now + VerificationTTL, sig |-> "ok"]

login_jwt(user) ==
    [purpose |-> "login", sub |-> user.id, email |-> None,
     exp |-> now + LoginTTL, sig |-> "ok"]

password_reset_jwt(user) ==
    [purpose |-> "password-reset", sub |-> user.id, email |-> None,
     exp |-> now + ResetTTL, sig |-> "ok"]

\* A token whose signature does not match: claims of a login session of user 1.
ForgedToken ==
    [purpose |-> "login", sub |-> 1, email |-> None, exp |-> MaxTime + LoginTTL + 1,
     sig |-> "bad"]

\* verify(token_string): the codec checks integrity and expiry, nothing else.
decode_jwt(token) ==
    IF token = NoToken THEN "Malformed"
    ELSE IF token.sig # "ok" THEN "InvalidSignature"
    ELSE IF now >= token.exp THEN "Expired"
    ELSE "ok"

\* What a client can present: a token it holds, a tampered one, or nothing.
Presentable == issued \cup {ForgedToken, NoToken}

\* The client holds at most MaxTokens tokens: a new one takes a free place, or
\* the place of one the client gives up.
Keeps(token) ==
    IF token \in issued THEN {issued}
    ELSE IF Cardinality(issued) < MaxTokens THEN {issued \cup {token}}
    ELSE {(issued \ {old}) \cup {token} : old \in issued}

(* ------------------------------ responses ----------------------------- *)

\* kind: "ok" (2xx), "reject" (an error the code raises on purpose),
\* "crash" (an exception nothing handles, a 500), "pending" (not answered yet).
\* arg: what the request carried; token, mail: what the handler issued and
\* dispatched; uid: the identity it acted for.
Response(op, arg, kind, msg, token, mail, uid) ==
    [op |-> op, arg |-> arg, kind |-> kind, msg |-> msg, token |-> token, mail |-> mail,
     uid |-> uid]

Reject(op, arg, msg) == Response(op, arg, "reject", msg, NoToken, None, NoId)

Crash(op, arg, msg) == Response(op, arg, "crash", msg, NoToken, None, NoId)

Ok(op, arg, msg) == Response(op, arg, "ok", msg, NoToken, None, NoId)

Pending(op, arg) == Response(op, arg, "pending", None, NoToken, None, NoId)

Idle == [pc |-> "idle", email |-> None]

Init ==
    /\ users = {}
    /\ profiles = {}
    /\ products = {}
    /\ reviews = {}
    /\ favorites = {}
    /\ nextId = [user |-> 1, profile |-> 1, product |-> 1, review |-> 1]
    /\ now = 0
    /\ issued = {}
    /\ txns = {}
    /\ reset = Idle
    /\ resp = Ok("start", None, None)

(* ------------------------------- clock -------------------------------- *)

Tick ==
    /\ now < MaxTime
    /\ now' = now + 1
    /\ resp' = Ok("tick", None, None)
    /\ UNCHANGED <<store, nextId, issued, txns, reset>>

(* ------------------- the store's own administration ------------------- *)

\* An administrator deactivates an account (User.is_active = False).
Deactivate ==
    \E u \in users :
        /\ u.is_active
        /\ users' = (users \ {u}) \cup {[u EXCEPT !.is_active = FALSE]}
        /\ resp' = Ok("admin_deactivate", None, None)
        /\ UNCHANGED <<profiles, products, reviews, favorites, nextId, now, issued, txns, reset>>

\* An administrator deletes an account; the rows that reference it go with it.
Delete ==
    \E u \in users :
        LET gone_profiles == {a \in profiles : a.user = u.id}
            gone_products == {p \in products : p.artist \in {a.id : a \in gone_profiles}}
            gone_ids == {p.id : p \in gone_products}
        IN  /\ users' = users \ {u}
            /\ profiles' = profiles \ gone_profiles
            /\ products' = products \ gone_products
            /\ reviews' = {r \in reviews : r.user # u.id /\ r.product \notin gone_ids}
            /\ favorites' = {f \in favorites : f.user # u.id /\ f.product \notin gone_ids}
            /\ resp' = Ok("admin_delete", None, None)
            /\ UNCHANGED <<nextId, now, issued, txns, reset>>

(* ------------------------- email verification ------------------------- *)

email_verification(op, email) ==
    LET arg == [email |-> email]
    IN  IF UsersByEmail(email) # {}
        THEN /\ resp' = Reject(op, arg, "400 A user with the same email address already exists.")
             /\ UNCHANGED <<store, nextId, now, issued, txns, reset>>
        ELSE LET verification_token == new_user_jwt(email)
             IN  /\ issued' \in Keeps(verification_token)
                 /\ resp' = Response(op, arg, "ok", "A verification email has been sent",
                                     verification_token, email, NoId)
                 /\ UNCHANGED <<store, nextId, now, txns, reset>>

email_verification_buyer ==
    \E email \in Emails : email_verification("email_verification_buyer", email)

email_verification_seller ==
    \E email \in Emails : email_verification("email_verification_seller", email)

(* --------------------------- create_account --------------------------- *)

\* The rows a database with unique (username, email) and not-null (email)
\* columns refuses; whether the schema has them is not in the sources.
Refusable(row, table) ==
    \/ row.email = None
    \/ \E u \in table : u.id # row.id /\ (u.username = row.username \/ u.email = row.email)

\* Whether the database raises IntegrityError on the row: never when the row
\* breaks no constraint, either way when it breaks one the schema may have.
Raises(row, table) == IF Refusable(row, table) THEN BOOLEAN ELSE {FALSE}

\* The guard of the insert: the row is created unless the username AND the
\* token's email both exist already.
MayCreate(username, email) ==
    \/ UsersByUsername(username) = {}
    \/ UsersByEmail(email) = {}

\* Mutant: the handler without the transaction, so that nothing is rolled back.
atomic_missing(before, inside, raised) == inside

\* with transaction.atomic(): an exception inside the block rolls it back.
atomic(before, inside, raised) == IF raised THEN before ELSE inside

\* The checks that follow the insert, in order.
PasswordVerdict(password, confirm_password) ==
    IF Len(password) <= PasswordLimit
    THEN "400 Password is too short. Must have minimum of 8 characters!"
    ELSE IF password # confirm_password
    THEN "400 Passwords provided did not match!"
    ELSE "ok"

\* First half of the request: decode the token, open the transaction, insert
\* the row, validate the password.  Others see the row at the commit.
create_account_begin ==
    \E username \in Usernames, is_artist \in BOOLEAN, password \in Passwords,
       confirm_password \in Passwords, token \in Presentable :
        LET op == "create_account"
            arg == [username |-> username, token |-> token]
            email == token.email
            new_user == NewUser(nextId.user, username, email, is_artist)
            verdict == PasswordVerdict(password, confirm_password)
        IN  IF decode_jwt(token) # "ok"
            THEN /\ resp' = Reject(op, arg, "Unauthenticated")
                 /\ UNCHANGED <<store, nextId, now, issued, txns, reset>>
            ELSE IF ~MayCreate(username, email)
            THEN /\ resp' = Reject(op, arg, "400 Username or email already exists!")
                 /\ UNCHANGED <<store, nextId, now, issued, txns, reset>>
            ELSE \E raised \in Raises(new_user, users) :
                IF raised
                THEN /\ resp' = Crash(op, arg, "IntegrityError")
                     /\ users' = atomic(users, users, TRUE)
                     /\ UNCHANGED <<profiles, products, reviews, favorites, nextId, now,
                                    issued, txns, reset>>
                ELSE IF verdict # "ok"
                THEN /\ resp' = Reject(op, arg, verdict)
                     /\ users' = atomic(users, users \cup {new_user}, TRUE)
                     /\ UNCHANGED <<profiles, products, reviews, favorites, nextId, now,
                                    issued, txns, reset>>
                ELSE /\ nextId.user <= MaxUsers
                     /\ Cardinality(txns) < MaxInflight
                     /\ txns' = txns \cup {[new_user EXCEPT !.password = password]}
                     /\ nextId' = [nextId EXCEPT !.user = @ + 1]
                     /\ resp' = Pending(op, arg)
                     /\ UNCHANGED <<store, now, issued, reset>>

\* Second half: new_user.save() and the commit of the transaction.
create_account_commit ==
    \E new_user \in txns :
        \E raised \in Raises(new_user, users) :
            LET op == "create_account"
                arg == [username |-> new_user.username, token |-> NoToken]
            IN  /\ txns' = txns \ {new_user}
                /\ users' = atomic(users, users \cup {new_user}, raised)
                /\ resp' = IF raised THEN Crash(op, arg, "IntegrityError")
                           ELSE Response(op, arg, "ok", "Account created successfully",
                                         NoToken, None, new_user.id)
                /\ UNCHANGED <<profiles, products, reviews, favorites, nextId, now, issued,
                               reset>>

(* ----------------------- request_password_reset ----------------------- *)

\* if not User.objects.filter(email=data.email).exists()
request_password_reset_exists ==
    \E email \in Emails :
        LET op == "request_password_reset"
            arg == [email |-> email]
        IN  /\ reset.pc = "idle"
            /\ IF UsersByEmail(email) = {}
               THEN /\ resp' = Reject(op, arg, "400 The email address provided does not exists.")
                    /\ UNCHANGED reset
               ELSE /\ reset' = [pc |-> "exists_ok", email |-> email]
                    /\ resp' = Pending(op, arg)
            /\ UNCHANGED <<store, nextId, now, issued, txns>>

\* if not User.objects.get(email=data.email).is_active
request_password_reset_active ==
    LET op == "request_password_reset"
        arg == [email |-> reset.email]
        rows == UsersByEmail(reset.email)
    IN  /\ reset.pc = "exists_ok"
        /\ IF GetOutcome(rows) # "ok"
           THEN /\ resp' = Crash(op, arg, GetOutcome(rows))
                /\ reset' = Idle
           ELSE IF ~TheRow(rows).is_active
           THEN /\ resp' = Reject(op, arg,
                                  "400 You must be an active user to be able to reset password")
                /\ reset' = Idle
           ELSE /\ reset' = [reset EXCEPT !.pc = "active_ok"]
                /\ resp' = Pending(op, arg)
        /\ UNCHANGED <<store, nextId, now, issued, txns>>

\* user = User.objects.get(email=data.email), then the token and the email.
request_password_reset_send ==
    LET op == "request_password_reset"
        arg == [email |-> reset.email]
        rows == UsersByEmail(reset.email)
    IN  /\ reset.pc = "active_ok"
        /\ IF GetOutcome(rows) # "ok"
           THEN /\ resp' = Crash(op, arg, GetOutcome(rows))
                /\ UNCHANGED issued
           ELSE LET user == TheRow(rows)
                    reset_token == password_reset_jwt(user)
                IN  /\ issued' \in Keeps(reset_token)
                    /\ resp' = Response(op, arg, "ok", "A password reset email has been sent",
                                        reset_token, reset.email, user.id)
        /\ reset' = Idle
        /\ UNCHANGED <<store, nextId, now, txns>>

(* -------------------------------- login ------------------------------- *)

\* Mutant: the password is not compared.
authenticate_any_password(username, password, allow_inactive) ==
    LET rows == UsersByUsername(username)
    IN  IF rows = {} THEN "None"
        ELSE IF Cardinality(rows) > 1 THEN "MultipleObjectsReturned"
        ELSE IF ~TheRow(rows).is_active /\ ~allow_inactive THEN "None"
        ELSE "user"

\* django.contrib.auth.authenticate: None for an unknown username and for a
\* wrong password, and, with the default backend, for an inactive user
\* (allow_inactive tells which backend the settings name).
authenticate(username, password, allow_inactive) ==
    LET rows == UsersByUsername(username)
    IN  IF rows = {} THEN "None"
        ELSE IF Cardinality(rows) > 1 THEN "MultipleObjectsReturned"
        ELSE IF TheRow(rows).password # password THEN "None"
        ELSE IF ~TheRow(rows).is_active /\ ~allow_inactive THEN "None"
        ELSE "user"

\* The role each login endpoint admits: "any", or the is_artist flag it wants.
LoginEndpoints == {"login", "login_buyer", "login_seller"}

\* Mutant: login_buyer and login_seller without their role check.
RoleAdmitted_any(op, user) == TRUE

RoleAdmitted(op, user) ==
    CASE op = "login" -> TRUE
      [] op = "login_buyer" -> ~user.is_artist
      [] op = "login_seller" -> user.is_artist

\* Mutant: the row is fetched without the username filter.
LoginUser_first(username) == TheRow(users)

\* user = User.objects.get(username=data.username)
LoginUser(username) == TheRow(UsersByUsername(username))

\* What login, login_buyer and login_seller answer.
LoginAnswer(op, username, password, allow_inactive) ==
    LET arg == [username |-> username, password |-> password]
        user_ == authenticate(username, password, allow_inactive)
        user == LoginUser(username)
    IN  IF user_ = "MultipleObjectsReturned" THEN Crash(op, arg, user_)
        ELSE IF user_ = "None"
        THEN Reject(op, arg, "401 Authentication failed: Wrong username or password")
        ELSE IF ~user.is_active
        THEN Reject(op, arg, "401 Inactive account. Contact administrator.")
        ELSE IF ~RoleAdmitted(op, user)
        THEN Reject(op, arg, "401 Authentication failed: Wrong username or password")
        ELSE Response(op, arg, "ok", "Authentication successful", login_jwt(user), None,
                      user.id)

\* The body shared by login, login_buyer and login_seller.
LoginBody(op, username, password, allow_inactive) ==
    /\ resp' = LoginAnswer(op, username, password, allow_inactive)
    /\ issued' \in (IF resp'.kind = "ok" THEN Keeps(resp'.token) ELSE {issued})
    /\ UNCHANGED <<store, nextId, now, txns, reset>>

login ==
    \E username \in Usernames, password \in Passwords, allow_inactive \in BOOLEAN :
        LoginBody("login", username, password, allow_inactive)

login_buyer ==
    \E username \in Usernames, password \in Passwords, allow_inactive \in BOOLEAN :
        LoginBody("login_buyer", username, password, allow_inactive)

login_seller ==
    \E username \in Usernames, password \in Passwords, allow_inactive \in BOOLEAN :
        LoginBody("login_seller", username, password, allow_inactive)

(* ----------------- Authenticator and authorization guards -------------- *)

\* AuthBearer: the bearer token to the identity it was issued for.  A missing
\* header is MissingCredentials; a token the codec refuses, a token of
\* another purpose and a subject that no longer exists are Unauthenticated.
AuthBearer(token) ==
    IF token = NoToken THEN "MissingCredentials"
    ELSE IF decode_jwt(token) # "ok" THEN "Unauthenticated"
    ELSE IF token.purpose # "login" THEN "Unauthenticated"
    ELSE IF UsersById(token.sub) = {} THEN "Unauthenticated"
    ELSE "ok"

\* get_authenticated_user(request): the identity the Authenticator resolved.
get_authenticated_user(token) == TheRow(UsersById(token.sub))

\* ActiveGuard
require_active(user) == IF user.is_active THEN "ok" ELSE "InactiveAccount"

\* RoleGuard(requiredRole)
require_role(user, is_artist) == IF user.is_artist = is_artist THEN "ok" ELSE "RoleMismatch"

Active == [guard |-> "require_active", is_artist |-> FALSE]

Role(is_artist) == [guard |-> "require_role", is_artist |-> is_artist]

\* Routes declared @require_active only.
AnyRoleRoutes ==
    {"update_profile_pic", "view_my_profile", "update_profile", "update_banner_pic",
     "get_review", "list_favorites", "create_favorite", "delete_favorite"}

\* Routes declared @require_active, @require_role(is_artist=True).
SellerRoutes ==
    {"create_artist_profile", "update_artist_profile", "list_seller_products",
     "create_product", "update_product", "delete_product",
     "list_all_product_reviews_for_seller", "products_count_per_category",
     "product_ratings_analytics", "product_favorites_analytics", "overall_analytics"}

\* Routes declared @require_active, @require_role(is_artist=False).
BuyerRoutes ==
    {"list_all_product_reviews", "list_all_product_reviews_for_buyer", "create_review",
     "update_review", "delete_review"}

Routes == AnyRoleRoutes \cup SellerRoutes \cup BuyerRoutes

\* Mutant: the two decorators stacked the other way round.
Decorators_role_first(route) ==
    IF route \in SellerRoutes THEN <<Role(TRUE), Active>>
    ELSE IF route \in BuyerRoutes THEN <<Role(FALSE), Active>>
    ELSE <<Active>>

\* Mutant: the buyer routes carry the decorator copied from a seller route.
Decorators_copied(route) ==
    IF route \in SellerRoutes \cup BuyerRoutes THEN <<Active, Role(TRUE)>>
    ELSE <<Active>>

\* The decorators of a route, outermost first: the outermost runs first.
Decorators(route) ==
    IF route \in SellerRoutes THEN <<Active, Role(TRUE)>>
    ELSE IF route \in BuyerRoutes THEN <<Active, Role(FALSE)>>
    ELSE <<Active>>

Check(guard, user) ==
    IF guard.guard = "require_active" THEN require_active(user)
    ELSE require_role(user, guard.is_artist)

\* The first guard of the chain that fails, or "ok".
RECURSIVE GuardChain(_, _)
GuardChain(guards, user) ==
    IF guards = <<>> THEN "ok"
    ELSE IF Check(Head(guards), user) # "ok" THEN Check(Head(guards), user)
    ELSE GuardChain(Tail(guards), user)

(* ------------------------- the handler bodies ------------------------- *)

\* The tables as a handler leaves them, with what it answers.
Out(kind, msg, us, prs, pds, rvs, fvs, ids) ==
    [kind |-> kind, msg |-> msg, users |-> us, profiles |-> prs, products |-> pds,
     reviews |-> rvs, favorites |-> fvs, nextId |-> ids]

Same(kind, msg) == Out(kind, msg, users, profiles, products, reviews, favorites, nextId)

\* The Category table is filled by the administrator and does not change here.
Categories == {"pottery"}

NoArgs == [pid |-> NoId, rid |-> NoId, name |-> None, category |-> None,
           username |-> None, email |-> None, rating |-> 0, comment |-> None]

\* ArtistProfile.objects.filter(user=user)
ProfilesOf(user) == {a \in profiles : a.user = user.id}

\* Product.objects.filter(artist=artist, id=...)
ProductsOfArtist(artist, pid) == {p \in products : p.artist = artist.id /\ p.id = pid}

\* Product.objects.filter(id=...)
ProductsById(pid) == {p \in products : p.id = pid}

\* The lookup of a review without the filter on its author.
ReviewsOfUser_any(user, rid) == {r \in reviews : r.id = rid}

\* Review.objects.filter(user=user, id=...)
ReviewsOfUser(user, rid) == {r \in reviews : r.user = user.id /\ r.id = rid}

\* The ids a request may name: those of the rows in the table and those the
\* table may still hand out.
ProductIds == (1..MaxProducts) \cup {p.id : p \in products}

ReviewIds == (1..MaxReviews) \cup {r.id : r \in reviews}

\* What each route's request carries besides the token.
Args(route) ==
    CASE route = "update_profile" ->
            {NoArgs, [NoArgs EXCEPT !.username = "bob"], [NoArgs EXCEPT !.email = "b@shop"]}
      [] route \in {"create_product", "update_product"} ->
            {[NoArgs EXCEPT !.pid = i, !.name = n, !.category = c] :
                i \in ProductIds, n \in Names, c \in Categories \cup {"unknown"}}
      [] route \in {"delete_product", "list_all_product_reviews",
                    "list_all_product_reviews_for_buyer", "create_favorite",
                    "delete_favorite"} ->
            {[NoArgs EXCEPT !.pid = i] : i \in ProductIds}
      [] route = "create_review" ->
            {[NoArgs EXCEPT !.pid = i, !.rating = r, !.comment = Comment(r)] :
                i \in ProductIds, r \in Ratings}
      [] route \in {"update_review"} ->
            {[NoArgs EXCEPT !.rid = i, !.rating = r, !.comment = Comment(r)] :
                i \in ReviewIds, r \in Ratings}
      [] route \in {"get_review", "delete_review"} ->
            {[NoArgs EXCEPT !.rid = i] : i \in ReviewIds}
      [] OTHER -> {NoArgs}

update_profile(user, data) ==
    LET changed == [user EXCEPT
                        !.username = IF data.username # None THEN data.username ELSE @,
                        !.email = IF data.email # None THEN data.email ELSE @]
    IN  {IF raised THEN Same("crash", "IntegrityError")
         ELSE Out("ok", "User profile updated successfully", (users \ {user}) \cup {changed},
                  profiles, products, reviews, favorites, nextId) :
            raised \in Raises(changed, users)}

create_artist_profile(user, data) ==
    LET row == [id |-> nextId.profile, user |-> user.id]
    IN  {IF raised THEN Same("crash", "IntegrityError")
         ELSE Out("ok", "Artist profile created successfully", users, profiles \cup {row},
                  products, reviews, favorites, [nextId EXCEPT !.profile = @ + 1]) :
            raised \in IF ProfilesOf(user) # {} THEN BOOLEAN ELSE {FALSE}}

\* update_artist_profile and update_banner_pic: ArtistProfile.objects.get(user=user),
\* then fields that are not modelled.
with_artist_profile(user, msg) ==
    IF GetOutcome(ProfilesOf(user)) # "ok"
    THEN {Same("crash", GetOutcome(ProfilesOf(user)))}
    ELSE {Same("ok", msg)}

list_seller_products(user) ==
    IF ProfilesOf(user) = {} THEN {Same("ok", "Artist profile not found.")}
    ELSE IF GetOutcome(ProfilesOf(user)) # "ok"
    THEN {Same("crash", GetOutcome(ProfilesOf(user)))}
    ELSE {Same("ok", "list")}

create_product(user, data) ==
    IF GetOutcome(ProfilesOf(user)) # "ok"
    THEN {Same("crash", GetOutcome(ProfilesOf(user)))}
    ELSE LET artist == TheRow(ProfilesOf(user))
             product == [id |-> nextId.product, artist |-> artist.id, name |-> data.name,
                         category |-> None]
             ids == [nextId EXCEPT !.product = @ + 1]
         IN  IF data.category \notin Categories
             THEN {Out("crash", "DoesNotExist", users, profiles, products \cup {product},
                       reviews, favorites, ids)}
             ELSE {Out("ok", "Product created successfully", users, profiles,
                       products \cup {[product EXCEPT !.category = data.category]},
                       reviews, favorites, ids)}

update_product(user, data) ==
    IF GetOutcome(ProfilesOf(user)) # "ok"
    THEN {Same("crash", GetOutcome(ProfilesOf(user)))}
    ELSE LET artist == TheRow(ProfilesOf(user))
             found == ProductsOfArtist(artist, data.pid)
         IN  IF found = {} THEN {Same("crash", "DoesNotExist")}
             ELSE IF data.category \notin Categories THEN {Same("crash", "DoesNotExist")}
             ELSE LET product == TheRow(found)
                      saved == [product EXCEPT !.name = data.name,
                                               !.category = data.category]
                  IN  {Out("ok", "Product updated successfully", users, profiles,
                           (products \ {product}) \cup {saved}, reviews, favorites, nextId)}

\* What product.delete() does about the reviews and favorites that refer to the
\* product: the schema either takes them along or refuses the deletion.
OnDelete == {"CASCADE", "PROTECT"}

Dependents(pid) ==
    {r \in reviews : r.product = pid} \cup {f \in favorites : f.product = pid}

delete_product(user, data) ==
    IF GetOutcome(ProfilesOf(user)) # "ok"
    THEN {Same("crash", GetOutcome(ProfilesOf(user)))}
    ELSE LET artist == TheRow(ProfilesOf(user))
             found == ProductsOfArtist(artist, data.pid)
         IN  IF found = {} THEN {Same("crash", "DoesNotExist")}
             ELSE {IF on_delete = "PROTECT" /\ Dependents(data.pid) # {}
                   THEN Same("crash", "ProtectedError")
                   ELSE Out("ok", "Product deleted successfully", users, profiles,
                            products \ found,
                            {r \in reviews : r.product # data.pid},
                            {f \in favorites : f.product # data.pid}, nextId) :
                      on_delete \in OnDelete}

\* list_all_product_reviews and list_all_product_reviews_for_buyer
reviews_of_product(user, data) ==
    IF ProductsById(data.pid) = {} THEN {Same("crash", "DoesNotExist")}
    ELSE {Same("ok", "list")}

get_review(user, data) ==
    IF ReviewsOfUser(user, data.rid) = {} THEN {Same("crash", "DoesNotExist")}
    ELSE {Same("ok", "review")}

create_review(user, data) ==
    IF GetOutcome(ProfilesOf(user)) # "ok"
    THEN {Same("crash", GetOutcome(ProfilesOf(user)))}
    ELSE LET artist == TheRow(ProfilesOf(user))
             found == ProductsOfArtist(artist, data.pid)
             review == [id |-> nextId.review, product |-> data.pid, user |-> user.id,
                        rating |-> data.rating, comment |-> data.comment]
         IN  IF found = {} THEN {Same("crash", "DoesNotExist")}
             ELSE {Out("ok", "Review created successfully", users, profiles, products,
                       reviews \cup {review}, favorites, [nextId EXCEPT !.review = @ + 1])}

update_review(user, data) ==
    LET found == ReviewsOfUser(user, data.rid)
    IN  IF found = {} THEN {Same("crash", "DoesNotExist")}
        ELSE {Out("ok", "Review updated successfully", users, profiles, products,
                  (reviews \ found)
                      \cup {[TheRow(found) EXCEPT !.rating = data.rating,
                                                  !.comment = data.comment]},
                  favorites, nextId)}

delete_review(user, data) ==
    LET found == ReviewsOfUser(user, data.rid)
    IN  IF found = {} THEN {Same("crash", "DoesNotExist")}
        ELSE {Out("ok", "Review deleted successfully", users, profiles, products,
                  reviews \ found, favorites, nextId)}

create_favorite(user, data) ==
    IF ProductsById(data.pid) = {} THEN {Same("crash", "DoesNotExist")}
    ELSE {Out("ok", "Favorite created", users, profiles, products, reviews,
              favorites \cup {[user |-> user.id, product |-> data.pid]}, nextId)}

delete_favorite(user, data) ==
    LET row == [user |-> user.id, product |-> data.pid]
    IN  IF ProductsById(data.pid) = {} THEN {Same("crash", "DoesNotExist")}
        ELSE IF row \notin favorites THEN {Same("crash", "DoesNotExist")}
        ELSE {Out("ok", "Favorite removed", users, profiles, products, reviews,
                  favorites \ {row}, nextId)}

\* The outcomes of the body of a route, run for the authenticated user.
Handler(route, user, data) ==
    CASE route = "update_profile" -> update_profile(user, data)
      [] route = "create_artist_profile" -> create_artist_profile(user, data)
      [] route = "update_artist_profile" ->
            with_artist_profile(user, "Artist profile updated successfully")
      [] route = "update_banner_pic" ->
            with_artist_profile(user, "Banner picture updated successfully")
      [] route = "list_seller_products" -> list_seller_products(user)
      [] route = "list_all_product_reviews_for_seller" -> with_artist_profile(user, "list")
      [] route = "create_product" -> create_product(user, data)
      [] route = "update_product" -> update_product(user, data)
      [] route = "delete_product" -> delete_product(user, data)
      [] route \in {"list_all_product_reviews", "list_all_product_reviews_for_buyer"} ->
            reviews_of_product(user, data)
      [] route = "get_review" -> get_review(user, data)
      [] route = "create_review" -> create_review(user, data)
      [] route = "update_review" -> update_review(user, data)
      [] route = "delete_review" -> delete_review(user, data)
      [] route = "create_favorite" -> create_favorite(user, data)
      [] route = "delete_favorite" -> delete_favorite(user, data)
      [] OTHER -> {Same("ok", "read")}

\* Rows a handler may still create within the bounds of the model.
WithinBounds(out) ==
    /\ out.nextId.profile = nextId.profile \/ out.nextId.profile <= MaxProfiles + 1
    /\ out.nextId.product = nextId.product \/ out.nextId.product <= MaxProducts + 1
    /\ out.nextId.review = nextId.review \/ out.nextId.review <= MaxReviews + 1

\* A request to a protected route: the Authenticator, the guards in the order
\* of the decorators, then the body.
Request(route) ==
    \E token \in Presentable, data \in Args(route) :
        LET arg == [token |-> token, pid |-> data.pid]
            auth == AuthBearer(token)
            user == get_authenticated_user(token)
            guarded == GuardChain(Decorators(route), user)
        IN  IF auth # "ok"
            THEN /\ resp' = Reject(route, arg, auth)
                 /\ UNCHANGED <<store, nextId, now, issued, txns, reset>>
            ELSE IF guarded # "ok"
            THEN /\ resp' = Response(route, arg, "reject", guarded, NoToken, None, user.id)
                 /\ UNCHANGED <<store, nextId, now, issued, txns, reset>>
            ELSE \E out \in Handler(route, user, data) :
                    /\ WithinBounds(out)
                    /\ users' = out.users
                    /\ profiles' = out.profiles
                    /\ products' = out.products
                    /\ reviews' = out.reviews
                    /\ favorites' = out.favorites
                    /\ nextId' = out.nextId
                    /\ resp' = Response(route, arg, out.kind, out.msg, NoToken, None, user.id)
                    /\ UNCHANGED <<now, issued, txns, reset>>

ProtectedRequest == \E route \in Routes : Request(route)

\* The routes whose body writes to the profile, product, review and favorite
\* tables (update_profile, which rewrites the User row, is left to SpecShop).
WriteRoutes ==
    {"create_artist_profile", "create_product", "update_product", "delete_product",
     "create_review", "update_review", "delete_review", "create_favorite",
     "delete_favorite"}

ProtectedWrite == \E route \in WriteRoutes : Request(route)

\* Accounts as create_account leaves them.
Seller == [NewUser(1, "alice", "a@shop", TRUE) EXCEPT !.password = "passw0rd9"]

Buyer == [NewUser(2, "bob", "b@shop", FALSE) EXCEPT !.password = "passw0rd9"]

Seeded(accounts) ==
    /\ users = accounts
    /\ profiles = {}
    /\ products = {}
    /\ reviews = {}
    /\ favorites = {}
    /\ nextId = [user |-> Cardinality(accounts) + 1, profile |-> 1, product |-> 1,
                 review |-> 1]
    /\ now = 0
    /\ issued = {}
    /\ txns = {}
    /\ reset = Idle
    /\ resp = Ok("start", None, None)

\* A seller and a buyer have signed up.
InitShop == Seeded({Seller, Buyer})

\* A seller has signed up.
InitOne == Seeded({Seller})

view_my_profile == Request("view_my_profile")

\* A second seller and a second buyer, who send no request in SpecOwn: their
\* rows are the ones another identity's requests must leave alone.
OtherSeller == [NewUser(3, "carol", "c@shop", TRUE) EXCEPT !.password = "passw0rd9"]

OtherBuyer == [NewUser(4, "dave", "d@shop", FALSE) EXCEPT !.password = "passw0rd9"]

\* A catalogue in use: each seller has a profile and a product, each buyer has
\* written one review: the buyer of the other seller's product, the other buyer
\* of the seller's.
InitOwn ==
    /\ users = {Seller, Buyer, OtherSeller, OtherBuyer}
    /\ profiles = {[id |-> 1, user |-> Seller.id], [id |-> 2, user |-> OtherSeller.id]}
    /\ products = {[id |-> 1, artist |-> 1, name |-> "mug", category |-> "pottery"],
                   [id |-> 2, artist |-> 2, name |-> "vase", category |-> "pottery"]}
    /\ reviews = {[id |-> 1, product |-> 2, user |-> Buyer.id, rating |-> 5,
                   comment |-> Comment(5)],
                  [id |-> 2, product |-> 1, user |-> OtherBuyer.id, rating |-> 1,
                   comment |-> Comment(1)]}
    /\ favorites = {}
    /\ nextId = [user |-> 5, profile |-> 3, product |-> 3, review |-> 3]
    /\ now = 0
    /\ issued = {}
    /\ txns = {}
    /\ reset = Idle
    /\ resp = Ok("start", None, None)

\* Signing up and logging in, from the empty store.
NextSignup ==
    \/ email_verification_buyer
    \/ email_verification_seller
    \/ create_account_begin
    \/ create_account_commit
    \/ login

\* Password reset requests while the administrator edits the accounts.
NextReset ==
    \/ request_password_reset_exists
    \/ request_password_reset_active
    \/ request_password_reset_send
    \/ Deactivate
    \/ Delete

\* The login endpoints, the clock, and a protected route to present tokens to.
NextLogin ==
    \/ login
    \/ login_buyer
    \/ login_seller
    \/ Deactivate
    \/ Delete
    \/ Tick
    \/ view_my_profile

\* Signing up next to requests that write to the catalogue.
NextFrame ==
    \/ email_verification_buyer
    \/ create_account_begin
    \/ create_account_commit
    \/ login
    \/ Deactivate
    \/ ProtectedWrite

\* Every protected route, for the accounts of InitShop.
NextShop ==
    \/ login
    \/ Deactivate
    \/ ProtectedRequest

\* The routes that change or remove a product or a review, beside the other
\* writes to the catalogue.
NextOwn ==
    \/ login
    \/ ProtectedWrite

\* Every operation of the program.
Next ==
    \/ Tick
    \/ Deactivate
    \/ Delete
    \/ email_verification_buyer
    \/ email_verification_seller
    \/ create_account_begin
    \/ create_account_commit
    \/ request_password_reset_exists
    \/ request_password_reset_active
    \/ request_password_reset_send
    \/ login
    \/ login_buyer
    \/ login_seller
    \/ ProtectedRequest

Spec == Init /\ [][Next]_vars

SpecSignup == Init /\ [][NextSignup]_vars

SpecReset == InitShop /\ [][NextReset]_vars

SpecLogin == InitShop /\ [][NextLogin]_vars

SpecShop == InitShop /\ [][NextShop]_vars

SpecFrame == InitOne /\ [][NextFrame]_vars

SpecOwn == InitOwn /\ [][NextOwn]_vars

(* ------------------------------ properties ---------------------------- *)

\* The row of the identity with this id.
UserOf(id) == TheRow(UsersById(id))

\* The step is a request to a protected route that the Authenticator let through.
Authenticated(r) == r.op \in Routes /\ r.uid # NoId

\* C1: a request with a valid token whose identity is inactive when the request
\* arrives is rejected with InactiveAccount, whatever the identity's is_artist
\* flag and whatever role the route requires, and the body of the handler does
\* not run: no table changes.
C1_InactiveRejectedBeforeRole ==
    [][(/\ Authenticated(resp')
        /\ \E u \in users : u.id = resp'.uid /\ ~u.is_active)
       => (/\ resp'.kind = "reject"
           /\ resp'.msg = "InactiveAccount"
           /\ UNCHANGED <<store, nextId>>)]_vars

\* C1 witness: the buyer, deactivated after login, asks for a seller-only route
\* and is told InactiveAccount.
C1_Witness ==
    /\ resp.op = "create_product"
    /\ resp.uid = Buyer.id
    /\ resp.arg.token \in issued
    /\ decode_jwt(resp.arg.token) = "ok"
    /\ ~UserOf(resp.uid).is_active
    /\ ~UserOf(resp.uid).is_artist
    /\ resp.msg = "InactiveAccount"

\* C2: for an authenticated, active identity the role guard rejects with
\* RoleMismatch exactly when is_artist differs from the role the route is
\* declared with, and lets the request through to the body otherwise.
C2_RoleGuardExact ==
    (/\ Authenticated(resp)
     /\ resp.op \in SellerRoutes \cup BuyerRoutes
     /\ resp.msg # "InactiveAccount")
    => LET required == resp.op \in SellerRoutes
           mismatch == UserOf(resp.uid).is_artist # required
       IN  /\ mismatch => resp.kind = "reject" /\ resp.msg = "RoleMismatch"
           /\ ~mismatch => resp.kind \in {"ok", "crash"}

\* C2 witness: the active buyer passes the guard of a buyer-only route.
C2_Witness ==
    /\ resp.op = "list_all_product_reviews"
    /\ resp.uid = Buyer.id
    /\ UserOf(resp.uid).is_active
    /\ resp.kind \in {"ok", "crash"}

\* C9 as claimed: an authenticated, active buyer who calls create_review with
\* the id of an existing product is answered 'Review created successfully' and
\* a review of that product by that user is stored.
C9_BuyerReviewSucceeds ==
    (/\ Authenticated(resp)
     /\ resp.op = "create_review"
     /\ resp.kind # "reject"
     /\ ProductsById(resp.arg.pid) # {})
    => /\ resp.kind = "ok"
       /\ resp.msg = "Review created successfully"
       /\ \E r \in reviews : r.product = resp.arg.pid /\ r.user = resp.uid

\* A token of another purpose than email verification that the codec accepts.
OtherPurpose(token) ==
    token.sig = "ok" /\ token.purpose # "email-verification" /\ decode_jwt(token) = "ok"

\* C3 as claimed: create_account rejects a login or password-reset token given
\* as verification_token, and no user comes of it.
C3_PurposeEnforced ==
    /\ (resp.op = "create_account" /\ OtherPurpose(resp.arg.token))
        => resp.kind = "reject"
    /\ \A u \in users : u.email # None

\* A login token a login endpoint issued.
LoginToken(token) == token.sig = "ok" /\ token.purpose = "login"

\* C4 as amended: a login answer carries a token for the identity that logged in,
\* expiring LoginTTL later; presented before that, the token resolves to that
\* identity if it still exists and is Unauthenticated if it was deleted;
\* presented at or after its expiry it is Unauthenticated; and an expired token
\* stays expired.
C4_LoginTokenRoundTrip ==
    [][/\ (resp'.op \in LoginEndpoints /\ resp'.kind = "ok")
            => /\ LoginToken(resp'.token)
               /\ resp'.token.sub = resp'.uid
               /\ resp'.token.exp = now + LoginTTL
               /\ UserOf(resp'.uid).username = resp'.arg.username
       /\ (resp'.op \in Routes /\ LoginToken(resp'.arg.token))
            => LET token == resp'.arg.token
               IN  /\ now >= token.exp
                        => resp'.msg = "Unauthenticated" /\ resp'.uid = NoId
                   /\ (now < token.exp /\ UsersById(token.sub) # {})
                        => resp'.uid = token.sub
                   /\ (now < token.exp /\ UsersById(token.sub) = {})
                        => resp'.msg = "Unauthenticated" /\ resp'.uid = NoId
       /\ \A token \in issued : now >= token.exp => now' >= token.exp]_vars

\* C4 witness: a login token is presented after it expired and is refused.
C4_Witness ==
    /\ resp.op = "view_my_profile"
    /\ resp.arg.token \in issued
    /\ LoginToken(resp.arg.token)
    /\ now > resp.arg.token.exp
    /\ UsersById(resp.arg.token.sub) # {}
    /\ resp.msg = "Unauthenticated"

\* C4 as claimed: a login token presented before its expiry resolves to the
\* identity it was issued for.
C4_AlwaysResolves ==
    (/\ resp.op \in Routes
     /\ LoginToken(resp.arg.token)
     /\ now < resp.arg.token.exp)
    => resp.uid = resp.arg.token.sub

WrongCredentials == "401 Authentication failed: Wrong username or password"

\* The login request named no stored identifier.
UnknownIdentifier(r) == r.op \in LoginEndpoints /\ UsersByUsername(r.arg.username) = {}

\* The login request named a stored identifier with another password than its own.
WrongPassword(r) ==
    /\ r.op \in LoginEndpoints
    /\ UsersByUsername(r.arg.username) # {}
    /\ \A u \in UsersByUsername(r.arg.username) : u.password # r.arg.password

C6_RejectionChangesNothing ==
    [][resp'.kind = "reject" => UNCHANGED store]_vars

\* C6 witness: create_account inserted the row, then refused the password
\* confirmation.
C6_Witness ==
    /\ resp.op = "create_account"
    /\ resp.kind = "reject"
    /\ resp.arg.token.purpose = "email-verification"
    /\ resp.msg = "400 Passwords provided did not match!"

\* The username or the email of the request belongs to a user already.
Taken(r) ==
    \/ UsersByUsername(r.arg.username) # {}
    \/ UsersByEmail(r.arg.token.email) # {}

\* C7 as claimed: create_account answers 400 'Username or email already exists!'
\* whenever the username or the token's email is taken, so that no two users
\* share a username and no two share an email.
C7_NoDuplicates ==
    /\ (/\ resp.op = "create_account"
        /\ resp.arg.token.purpose = "email-verification"
        /\ decode_jwt(resp.arg.token) = "ok"
        /\ Taken(resp))
        => resp.kind = "reject" /\ resp.msg = "400 Username or email already exists!"
    /\ \A u \in users, v \in users :
            u.id # v.id => u.username # v.username /\ u.email # v.email

\* C8: a login endpoint issues a token only to the identity stored under the
\* username, with the password given, active, and of the role the endpoint
\* admits; every other request is rejected with a 401 and carries no token.
C8_TokenOnlyToVerifiedActive ==
    resp.op \in LoginEndpoints
    => IF resp.kind = "ok"
       THEN /\ UsersById(resp.uid) # {}
            /\ UserOf(resp.uid).username = resp.arg.username
            /\ UserOf(resp.uid).password = resp.arg.password
            /\ UserOf(resp.uid).is_active
            /\ resp.op = "login_buyer" => ~UserOf(resp.uid).is_artist
            /\ resp.op = "login_seller" => UserOf(resp.uid).is_artist
            /\ resp.token = login_jwt(UserOf(resp.uid))
       ELSE /\ resp.kind = "reject"
            /\ resp.msg \in {WrongCredentials, "401 Inactive account. Contact administrator."}
            /\ resp.token = NoToken

\* C8 witness: the seller, with the right password, is refused by login_buyer.
C8_Witness ==
    /\ resp.op = "login_buyer"
    /\ resp.kind = "reject"
    /\ \E u \in users :
        /\ u.username = resp.arg.username
        /\ u.password = resp.arg.password
        /\ u.is_active
        /\ u.is_artist

\* C10 as claimed: request_password_reset issues a token and dispatches the
\* email only for the email of an existing user who is active, whatever happens
\* between its lookups.
C10_ResetOnlyForActive ==
    (resp.op = "request_password_reset" /\ resp.kind = "ok")
    => \E u \in users : u.email = resp.mail /\ u.is_active

\* The artist profiles of a user.
ProfileIds(uid) == {a.id : a \in {a \in profiles : a.user = uid}}

\* The step is the body of one of the routes running for an authenticated user.
Ran(r, routes) == r.op \in routes /\ r.uid # NoId

=============================================================================
